---- MODULE Spec2Model ----
(***************************************************************************)
(* Video analysis pipeline: segment planning and window validation         *)
(* (components/analyze.py), per-segment processing and the analysis store  *)
(* (utils/video_processing.py), the analysis cache index                   *)
(* (utils/analysis_cache.py) and the chat context (components/chat.py,     *)
(* utils/analysis.py).                                                     *)
(*                                                                         *)
(* Times are counted in ticks of 1/TicksPerSecond second, so that the      *)
(* fractional duration total_frames / fps of an uploaded file is exact.    *)
(* Texts are sequences of string tokens; the empty text '' is <<>>.        *)
(***************************************************************************)
EXTENDS Integers, Sequences, FiniteSets, TLC

\* ------------------------------------------------------------------------
\* Bounds of the model
\* ------------------------------------------------------------------------
TicksPerSecond == 2
MaxFrames == 6
MaxUrlSeconds == 3
MaxInterval == 2
MaxWindow == 3
MaxFaults == 2
MaxLongSeconds == 11
MaxClock == 3
MaxQueries == 2
MaxFairSeconds == 2
MaxFairFaults == 1
MaxDeltas == 1
MaxChatSeconds == 2
MaxChatFaults == 1
MaxStoreSeconds == 3
MaxStoreFaults == 1
MaxTotalFrames == 5
MaxSamples == 7

\* ------------------------------------------------------------------------
\* Python helpers
\* ------------------------------------------------------------------------
Min(a, b) == IF a <= b THEN a ELSE b

\* int(x) of a non-negative time: truncation to whole seconds
IntPart(t) == (t \div TicksPerSecond) * TicksPerSecond

Seconds(n) == n * TicksPerSecond

\* dict.get(key, default)
Get(rec, key, default) == IF key \in DOMAIN rec THEN rec[key] ELSE default

\* truthiness of a str
Truthy(text) == text # <<>>

\* str(n) of a non-negative integer, as character codes
RECURSIVE Digits(_)
Digits(n) == IF n < 10 THEN <<48 + n>> ELSE Digits(n \div 10) \o <<48 + (n % 10)>>

\* f"segment_{n}_analysis.json" as character codes
AnalysisFileName(n) ==
    <<115, 101, 103, 109, 101, 110, 116, 95>> \o Digits(n)
        \o <<95, 97, 110, 97, 108, 121, 115, 105, 115, 46, 106, 115, 111, 110>>

\* Python's < on str: a is a proper prefix of b, or a has the smaller character
\* at the first position where the two differ
StrLess(a, b) ==
    \/ Len(a) < Len(b) /\ \A j \in 1..Len(a) : a[j] = b[j]
    \/ \E i \in 1..Min(Len(a), Len(b)) :
          /\ a[i] < b[i]
          /\ \A j \in 1..(i - 1) : a[j] = b[j]

\* sorted([f for f in os.listdir(dir) if f.endswith('_analysis.json')]):
\* the segment numbers of the files of a directory, in the order of their names
RECURSIVE SortedFiles(_)
SortedFiles(S) ==
    IF S = {} THEN <<>>
    ELSE LET m == CHOOSE x \in S :
                    \A y \in S \ {x} : StrLess(AnalysisFileName(x), AnalysisFileName(y))
         IN  <<m>> \o SortedFiles(S \ {m})

\* ------------------------------------------------------------------------
\* State
\* ------------------------------------------------------------------------
VARIABLES
    config,              \* st.session_state.config
    source,              \* the selected video: uploaded file or URL
    pc,                  \* position of the pipeline run
    start_time,          \* locals of process_uploaded_file / process_video_url
    end_time,
    video_duration,      \* total duration handed to execute_video_processing
    cur,                 \* loop variable of range(start, stop, segment_interval)
    segments_to_process, \* process_uploaded_file: extracted segment paths
    seg_i,               \* enumerate index over segments_to_process
    segment_num,
    disk,                \* analysis directories: dir -> (file number -> record)
    cache,               \* video/analysis_cache.json
    clock,               \* time.time()
    analyses,            \* st.session_state.analyses
    current_analyses,    \* st.session_state.current_analyses
    chat_config,         \* st.session_state.chat_config
    chat_history,        \* st.session_state.chat_history
    requests,            \* analyze_video calls of the run, in order
    events,              \* extraction, download and processing calls of the run
    faults,              \* injected failures of external calls so far
    lookup,              \* the last cache lookup and its result
    registered,          \* history: fingerprint -> directory of its last register call
    chat_request,        \* analyses handed to the last chat completion
    written,             \* history: (directory, file number) -> fingerprint of the writing run
    current_phase,       \* st.session_state.current_phase
    use_previous_analysis,   \* st.session_state.use_previous_analysis
    previous_analysis_path,  \* st.session_state.previous_analysis_path
    reanalyze,           \* history: "Re-Analyze Video" was clicked for the selected source
    video,               \* process_video: the opened capture and the sampling rate
    curr_frame,          \* process_video: position of the next frame to read
    frames,              \* process_video: positions of the frames read so far
    sample_pc,           \* position of process_video
    writers,             \* concurrent register calls: position and dict read by each
    auth_token,          \* st.session_state.auth_token
    auth_expiry,         \* st.session_state.auth_expiry
    authenticated,       \* st.session_state.authenticated
    api_checks           \* history: tokens a call of /auth/check/ has accepted

runVars == <<config, source, pc, start_time, end_time, video_duration, cur,
             segments_to_process, seg_i, segment_num, requests, events, faults>>
storeVars == <<disk, analyses, current_analyses>>
cacheVars == <<cache, clock, lookup, registered>>
chatVars == <<chat_config, chat_history, chat_request>>
pageVars == <<current_phase, use_previous_analysis, previous_analysis_path, reanalyze>>
frameVars == <<video, curr_frame, frames, sample_pc>>
authVars == <<auth_token, auth_expiry, authenticated, api_checks>>
extraVars == <<pageVars, frameVars, writers, authVars>>
vars == <<runVars, storeVars, cacheVars, chatVars, written, extraVars>>

\* ------------------------------------------------------------------------
\* Analysis store (utils/video_processing.py, utils/analysis_cache.py)
\* ------------------------------------------------------------------------
None == "None"
Raised == "raised"
EmptyDict == <<>>

IsCorrupt(rec) == "corrupt" \in DOMAIN rec

\* the files of the analysis subdirectory of video_dir; a missing directory
\* makes os.listdir raise, which every caller catches
DirExists(video_dir) == video_dir \in DOMAIN disk
FilesOf(video_dir) == IF DirExists(video_dir) THEN disk[video_dir] ELSE EmptyDict

\* os.makedirs(dir_path, exist_ok=True)
MakeDirs(video_dir) ==
    [d \in DOMAIN disk \cup {video_dir} |-> IF d \in DOMAIN disk THEN disk[d] ELSE EmptyDict]

\* position of the first file json.load fails on, Len + 1 if there is none
FirstCorrupt(files, names) ==
    LET bad == {i \in 1..Len(names) : IsCorrupt(files[names[i]])}
    IN  IF bad = {} THEN Len(names) + 1
        ELSE CHOOSE i \in bad : \A j \in bad : i <= j

load_segment_summary(video_dir, segment_number) ==
    LET files == FilesOf(video_dir)
        names == SortedFiles(DOMAIN files)
    IN  IF DirExists(video_dir) /\ segment_number > 0 /\ segment_number <= Len(names)
           /\ ~IsCorrupt(files[names[segment_number]])
        THEN Get(files[names[segment_number]], "summary", <<>>)
        ELSE <<>>

\* the loop of load_all_analyses over the files of one directory: the records
\* in the order of the sorted names, up to the first file that fails to load
LoadFiles(files) ==
    LET names == SortedFiles(DOMAIN files)
        stop == FirstCorrupt(files, names)
    IN  [i \in 1..(stop - 1) |-> files[names[i]]]

load_all_analyses(video_dir) == LoadFiles(FilesOf(video_dir))

load_previous_analysis(video_dir) ==
    LET files == FilesOf(video_dir)
        names == SortedFiles(DOMAIN files)
    IN  IF FirstCorrupt(files, names) <= Len(names) THEN <<>>
        ELSE [i \in 1..Len(names) |-> files[names[i]]]

\* ------------------------------------------------------------------------
\* Analysis cache (utils/analysis_cache.py)
\* ------------------------------------------------------------------------
\* video_file is None
NoFile == [none |-> TRUE]

\* os.path.join('video', f"{video_title}_analysis")
VideoDir(video_title) == "video/" \o video_title \o "_analysis"

\* no fingerprint is computed for a missing file or an empty url
NoKey == <<"none">>

\* variant: the file is identified by its name
compute_file_hash_of_name(file) == <<"md5", file.name.stem>>

\* hashlib.md5(...).hexdigest(), taken to be collision free
compute_file_hash(file) == <<"md5", file.content>>

\* hashlib.md5(f"{url}_{start_time}_{end_time}".encode()).hexdigest()
url_id(url, start, end) == <<"md5", url, start, end>>

get_analysis_cache == IF cache.readable THEN cache.entries ELSE EmptyDict

save_analysis_cache(entries) == [readable |-> TRUE, entries |-> entries]

\* variant: cache.setdefault(key, entry)
DictSetDefault(dict, key, entry) ==
    [k \in DOMAIN dict \cup {key} |-> IF k \in DOMAIN dict THEN dict[k] ELSE entry]

\* cache[key] = entry
DictSet(dict, key, entry) ==
    [k \in DOMAIN dict \cup {key} |-> IF k = key THEN entry ELSE dict[k]]

\* variant: the directory of the entry is returned without os.path.exists
CheckEntryUnverified(key) ==
    LET entries == get_analysis_cache
    IN  IF key \notin DOMAIN entries THEN None
        ELSE IF "analysis_dir" \notin DOMAIN entries[key] THEN Raised
        ELSE entries[key].analysis_dir

\* lookup of one fingerprint; cache[key]["analysis_dir"] raises KeyError on an
\* entry without that field
CheckEntry(key) ==
    LET entries == get_analysis_cache
    IN  IF key \notin DOMAIN entries THEN None
        ELSE IF "analysis_dir" \notin DOMAIN entries[key] THEN Raised
        ELSE IF DirExists(entries[key].analysis_dir) THEN entries[key].analysis_dir
        ELSE None

check_video_analyzed(file) ==
    IF file = NoFile THEN None ELSE CheckEntry(compute_file_hash(file))

check_url_analyzed(url, start, end) ==
    IF url = "" THEN None ELSE CheckEntry(url_id(url, start, end))

register_video_analysis(file, analysis_dir) ==
    IF file = NoFile THEN cache
    ELSE save_analysis_cache(DictSet(get_analysis_cache, compute_file_hash(file),
        [filename |-> file.name, size |-> file.size,
         analysis_dir |-> analysis_dir, timestamp |-> clock]))

register_url_analysis(url, analysis_dir, start, end) ==
    IF url = "" THEN cache
    ELSE save_analysis_cache(DictSet(get_analysis_cache, url_id(url, start, end),
            [url |-> url, start_time |-> start, end_time |-> end,
             analysis_dir |-> analysis_dir, timestamp |-> clock]))

\* the fingerprint a run registers its directory under
RunKey ==
    IF source.mode = "File" THEN compute_file_hash(source.file)
    ELSE url_id(source.url, IF config.enable_range THEN config.start_time ELSE 0,
                IF config.enable_range THEN config.end_time ELSE 0)

\* ------------------------------------------------------------------------
\* Session state after initialize_session_state (models/session_state.py)
\* ------------------------------------------------------------------------
DEFAULT_SHOT_INTERVAL == 10

DefaultConfig ==
    [audio_transcription |-> TRUE, segment_interval |-> DEFAULT_SHOT_INTERVAL,
     enable_range |-> FALSE, start_time |-> 0, end_time |-> 0]

DefaultChatConfig ==
    [summarize_first |-> FALSE, include_transcription |-> TRUE, max_context |-> 5]

NoSource == [mode |-> "File", file |-> NoFile]

InitSession ==
    /\ analyses = <<>>
    /\ current_analyses = <<>>
    /\ chat_config = DefaultChatConfig
    /\ chat_history = <<>>
    /\ chat_request = [query |-> "", max_context |-> 0, context |-> <<>>, chat_history |-> <<>>,
                       calls |-> <<>>, messages |-> <<>>,
                       summarize_first |-> FALSE, include_transcription |-> TRUE,
                       outcome |-> [client |-> TRUE, summary_ok |-> TRUE, create_ok |-> TRUE,
                                    deltas |-> 0, stream_ok |-> TRUE]]

InitIdle ==
    /\ pc = "idle"
    /\ start_time = 0
    /\ end_time = 0
    /\ video_duration = 0
    /\ cur = 0
    /\ segments_to_process = <<>>
    /\ seg_i = 0
    /\ segment_num = 0
    /\ requests = <<>>
    /\ events = <<>>
    /\ faults = 0

InitCache ==
    /\ cache = [readable |-> TRUE, entries |-> EmptyDict]
    /\ clock = 0
    /\ lookup = [query |-> NoFile, key |-> NoKey, result |-> None]
    /\ registered = EmptyDict

\* history of the register calls per fingerprint: the directories of its calls
\* in order, the last of them, and whether that one existed at the call
Remember(key, analysis_dir) ==
    [k \in DOMAIN registered \cup {key} |->
        IF k = key
        THEN [analysis_dir |-> analysis_dir, existed |-> DirExists(analysis_dir),
              dirs |-> (IF key \in DOMAIN registered THEN registered[key].dirs ELSE <<>>)
                          \o <<analysis_dir>>]
        ELSE registered[k]]

\* the navigation state of a new session (models/session_state.py,
\* components/upload.py)
InitPage ==
    /\ current_phase = "Upload"
    /\ use_previous_analysis = FALSE
    /\ previous_analysis_path = None
    /\ reanalyze = FALSE

\* no capture is open
InitFrames ==
    /\ video = [total_frames |-> 0, fps |-> 1, frames_per_second |-> 1]
    /\ curr_frame = 0
    /\ frames = <<>>
    /\ sample_pc = "idle"

\* st.session_state.auth_token = None
NoToken == [none |-> TRUE]

\* initialize_auth (utils/auth.py)
InitAuth ==
    /\ auth_token = NoToken
    /\ auth_expiry = 0
    /\ authenticated = FALSE
    /\ api_checks = {}

\* the two processes that may register a run
Writers == {1, 2}

InitWriters ==
    writers = [w \in Writers |-> [pc |-> "idle", file |-> NoFile, analysis_dir |-> None,
                                  cache |-> EmptyDict, overlap |-> FALSE]]

InitExtra ==
    /\ InitPage
    /\ InitFrames
    /\ InitAuth
    /\ InitWriters
    /\ written = EmptyDict

\* ------------------------------------------------------------------------
\* External services (utils/video_processing.py, utils/analysis.py)
\* ------------------------------------------------------------------------
RaiseToken == "<raise>"
AudioOutcomes == {"ok", "no_audio", "service_error", "clip_error"}

\* variant: a failure of the audio extraction or of the transcription call
\* leaves process_audio as an exception
process_audio_propagating(outcome, s) ==
    CASE outcome = "ok"            -> <<"speech", ToString(s)>>
      [] outcome = "no_audio"      -> <<"No audio found in this segment.">>
      [] outcome = "service_error" -> <<RaiseToken>>
      [] outcome = "clip_error"    -> <<RaiseToken>>

\* process_audio: the transcription of the segment starting at s.  The inner
\* handler swallows a failure of write_audiofile or of the transcription call
\* and leaves transcription_text = ''; the outer one turns a failure of
\* VideoFileClip into the sentinel.  No exception leaves the function.
process_audio(outcome, s) ==
    CASE outcome = "ok"            -> <<"speech", ToString(s)>>
      [] outcome = "no_audio"      -> <<"No audio found in this segment.">>
      [] outcome = "service_error" -> <<>>
      [] outcome = "clip_error"    -> <<"Audio processing failed.">>

\* variant: a failure of the completion call leaves analyze_video as an exception
analyze_video_raising(ok, s, e) ==
    IF ok THEN <<"analysis", ToString(s), ToString(e)>>
    ELSE <<RaiseToken>>

\* analyze_video: the text of the completion for the segment [s, e), or the
\* error string of the except branch
analyze_video(ok, s, e) ==
    IF ok THEN <<"analysis", ToString(s), ToString(e)>>
    ELSE <<"ERROR:", ToString(s), ToString(e)>>

\* timing = filename.split('_')[-1].replace('.mp4', ''); map(float, timing.split('-'))
\* float() raises ValueError on a name that keeps another extension
ParseTiming(path) ==
    IF path.ext = ".mp4" THEN [ok |-> TRUE, start |-> path.start, end |-> path.end]
    ELSE [ok |-> FALSE, start |-> 0, end |-> 0]

\* f'segment_{start}-{end}.mp4'
SegmentPath(start, end) == [start |-> start, end |-> end, ext |-> ".mp4"]

\* outcome of the external calls of one execute_video_processing:
\* raises  - st.video / process_video raise before anything is analysed
\* audio   - what process_audio meets
\* analysis_ok - whether the completion call succeeds
Outcomes ==
    [raises : BOOLEAN, audio : AudioOutcomes, analysis_ok : BOOLEAN]

Nominal == [raises |-> FALSE, audio |-> "ok", analysis_ok |-> TRUE]

\* number of off-nominal external results met by one call
Cost(path, o) ==
    (IF path.ext # ".mp4" THEN 1 ELSE 0) + (IF o.raises THEN 1 ELSE 0)
        + (IF o.audio # "ok" THEN 1 ELSE 0) + (IF o.analysis_ok THEN 0 ELSE 1)

\* the outcomes that differ in effect, within the failure budget
Feasible(path, o) ==
    /\ faults + Cost(path, o) <= MaxFaults
    /\ (o.raises \/ path.ext # ".mp4") => (o.audio = "ok" /\ o.analysis_ok)
    /\ path.ext # ".mp4" => ~o.raises
    /\ ~config.audio_transcription => o.audio = "ok"

\* ------------------------------------------------------------------------
\* execute_video_processing (utils/video_processing.py)
\* ------------------------------------------------------------------------
WriteFile(video_dir, number, rec) ==
    [d \in DOMAIN disk |->
        IF d = video_dir
        THEN [n \in DOMAIN disk[d] \cup {number} |-> IF n = number THEN rec ELSE disk[d][n]]
        ELSE disk[d]]

Transcription(o, s) ==
    IF config.audio_transcription THEN process_audio(o.audio, s) ELSE <<>>

\* whether the call raises before the record is written
ExecRaises(path, o) ==
    \/ ~ParseTiming(path).ok
    \/ o.raises
    \/ Transcription(o, path.start) = <<RaiseToken>>

\* the analyze_video call of the segment
Request(video_dir, path, number, total_duration, o) ==
    LET t == ParseTiming(path)
    IN  [segment_num |-> number, start_time |-> t.start, end_time |-> t.end,
         total_duration |-> total_duration,
         transcription |-> Transcription(o, t.start),
         previous_summary |-> load_segment_summary(video_dir, number),
         analysis |-> analyze_video(o.analysis_ok, t.start, t.end)]

execute_video_processing(video_dir, path, number, total_duration, o, log) ==
    LET req == Request(video_dir, path, number, total_duration, o)
        rec == [segment |-> number + 1, start_time |-> req.start_time,
                end_time |-> req.end_time, analysis |-> req.analysis]
    IN  /\ events' = Append(log, [op |-> "process", segment_num |-> number,
                                     start |-> path.start, end |-> path.end,
                                     ext |-> path.ext, raises |-> o.raises,
                                     audio |-> o.audio, analysis_ok |-> o.analysis_ok,
                                     ok |-> ~ExecRaises(path, o)])
        /\ faults' = faults + Cost(path, o)
        /\ IF ExecRaises(path, o)
           THEN UNCHANGED <<requests, disk, current_analyses, analyses, written>>
           ELSE /\ requests' = Append(requests, req)
                /\ disk' = WriteFile(video_dir, number + 1, rec)
                /\ current_analyses' = Append(current_analyses,
                      [segment |-> number + 1, start_time |-> req.start_time,
                       end_time |-> req.end_time, analysis |-> req.analysis,
                       transcription |-> IF config.audio_transcription
                                         THEN req.transcription ELSE <<"None">>])
                /\ analyses' = LoadFiles(WriteFile(video_dir, number + 1, rec)[video_dir])
                /\ written' = [p \in DOMAIN written \cup {<<video_dir, number + 1>>} |->
                                  IF p = <<video_dir, number + 1>> THEN RunKey ELSE written[p]]

\* ------------------------------------------------------------------------
\* process_uploaded_file and process_video_url (components/analyze.py)
\* ------------------------------------------------------------------------
Interval == Seconds(config.segment_interval)

\* video_duration = total_frames / fps
FileDuration(file) == (file.total_frames * TicksPerSecond) \div file.fps

\* the duration of the selected source
SourceDuration ==
    IF source.mode = "File" THEN FileDuration(source.file) ELSE Seconds(source.duration)

SourceDir ==
    IF source.mode = "File" THEN VideoDir(source.file.name.stem) ELSE VideoDir(source.title)

\* variant: an end_time beyond the duration is kept
EffectiveEndNoClamp(end, duration) ==
    IF end = 0 THEN duration ELSE end

\* variant: end_time = 0 is not replaced by the duration
EffectiveEndNoDefault(end, duration) ==
    IF end > duration THEN duration ELSE end

\* "Validate range parameters": end_time = 0 means the duration, end_time is
\* clamped to the duration
EffectiveEnd(end, duration) ==
    IF end = 0 \/ end > duration THEN duration ELSE end

\* the window passes "if start_time >= end_time: st.error(...); st.stop()"
ValidWindow(start, end) == start < end

\* stop of range(...) and the bound of min(...) in the segment loop
RangeStop ==
    IF source.mode = "File"
    THEN IntPart(IF config.enable_range THEN end_time ELSE video_duration)
    ELSE end_time
SegmentEnd(start) ==
    Min(start + Interval,
        IF source.mode = "File"
        THEN (IF config.enable_range THEN end_time ELSE video_duration)
        ELSE end_time)

\* process_uploaded_file up to the first loop: directories, duration, window
StartFileRun ==
    /\ pc = "idle"
    /\ source.mode = "File"
    /\ source.file # NoFile
    /\ LET duration == FileDuration(source.file)
           start == Seconds(config.start_time)
           end == IF config.enable_range
                  THEN EffectiveEnd(Seconds(config.end_time), duration)
                  ELSE Seconds(config.end_time)
           first == IntPart(IF config.enable_range THEN start ELSE 0)
           stop == IntPart(IF config.enable_range THEN end ELSE duration)
       IN  /\ disk' = MakeDirs(SourceDir)
           /\ start_time' = start
           /\ end_time' = end
           /\ IF config.enable_range /\ ~ValidWindow(start, end)
              THEN /\ pc' = "stopped"
                   /\ video_duration' = duration
                   /\ cur' = 0
              ELSE /\ video_duration' = IF config.enable_range THEN end - start ELSE duration
                   /\ cur' = first
                   /\ pc' = IF first < stop THEN "extracting" ELSE "completing"
    /\ current_analyses' = <<>>
    /\ UNCHANGED <<extraVars, written, config, source, segments_to_process, seg_i, segment_num, requests,
                   events, faults, analyses, cacheVars, chatVars>>

\* one iteration of "First, extract all segments"
ExtractSegment ==
    /\ pc = "extracting"
    /\ \E ok \in BOOLEAN :
          /\ ~ok => faults < MaxFaults
          /\ faults' = IF ok THEN faults ELSE faults + 1
          /\ events' = Append(events, [op |-> "extract", start |-> cur,
                                       end |-> SegmentEnd(cur), ok |-> ok])
          /\ segments_to_process' =
                IF ok THEN Append(segments_to_process, SegmentPath(cur, SegmentEnd(cur)))
                ELSE segments_to_process
          /\ cur' = cur + Interval
          /\ pc' = IF cur + Interval < RangeStop THEN "extracting"
                   ELSE IF segments_to_process' # <<>> THEN "processing"
                   ELSE "completing"
    /\ UNCHANGED <<extraVars, written, config, source, start_time, end_time, video_duration, seg_i,
                   segment_num, requests, storeVars, cacheVars, chatVars>>

\* variant: an exception of execute_video_processing leaves the loop and is
\* caught by the handler of the whole function
AfterProcessAborting(raised) ==
    IF raised THEN "failed"
    ELSE IF seg_i + 1 < Len(segments_to_process) THEN "processing" ELSE "completing"

\* where the loop goes after one iteration: "except Exception" inside the loop
\* body reports the failure and the iteration ends like any other
AfterProcess(raised) ==
    IF seg_i + 1 < Len(segments_to_process) THEN "processing" ELSE "completing"

\* one iteration of "Now process all segments"
ProcessSegment ==
    /\ pc = "processing"
    /\ \E o \in Outcomes :
          /\ Feasible(segments_to_process[seg_i + 1], o)
          /\ execute_video_processing(SourceDir, segments_to_process[seg_i + 1],
                                      segment_num, video_duration, o, events)
          /\ segment_num' =
                IF ExecRaises(segments_to_process[seg_i + 1], o)
                THEN segment_num ELSE segment_num + 1
          /\ pc' = AfterProcess(ExecRaises(segments_to_process[seg_i + 1], o))
    /\ seg_i' = seg_i + 1
    /\ UNCHANGED <<extraVars, config, source, start_time, end_time, video_duration, cur,
                   segments_to_process, cacheVars, chatVars>>

\* process_video_url up to the loop: metadata, directories, window
StartUrlRun ==
    /\ pc = "idle"
    /\ source.mode = "URL"
    /\ source.url # ""
    /\ LET duration == Seconds(source.duration)
           start == IF config.enable_range THEN Seconds(config.start_time) ELSE 0
           end == IF config.enable_range
                  THEN EffectiveEnd(Seconds(config.end_time), duration)
                  ELSE duration
       IN  /\ disk' = MakeDirs(SourceDir)
           /\ start_time' = start
           /\ end_time' = end
           /\ IF config.enable_range /\ ~ValidWindow(start, end)
              THEN /\ pc' = "stopped"
                   /\ video_duration' = duration
                   /\ cur' = 0
              ELSE /\ video_duration' = end - start
                   /\ cur' = start
                   /\ pc' = IF start < end THEN "downloading" ELSE "completing"
    /\ current_analyses' = <<>>
    /\ UNCHANGED <<extraVars, written, config, source, segments_to_process, seg_i, segment_num, requests,
                   events, faults, analyses, cacheVars, chatVars>>

\* what the ranged download leaves: the .mp4 file, a file with another
\* extension, or an exception
DownloadOutcomes == {".mp4", ".webm", "error"}

\* one iteration of the loop of process_video_url: download, then process
DownloadAndProcess ==
    /\ pc = "downloading"
    /\ \E dl \in DownloadOutcomes, o \in Outcomes :
          LET path == [start |-> cur, end |-> SegmentEnd(cur),
                       ext |-> IF dl = "error" THEN ".mp4" ELSE dl]
              download == [op |-> "download", start |-> cur, end |-> SegmentEnd(cur),
                           ok |-> dl # "error"]
          IN  IF dl = "error"
              THEN /\ faults < MaxFaults
                   /\ o = Nominal
                   /\ faults' = faults + 1
                   /\ events' = Append(events, download)
                   /\ UNCHANGED <<requests, disk, current_analyses, analyses, written>>
              ELSE /\ Feasible(path, o)
                   /\ execute_video_processing(SourceDir, path, segment_num,
                                               video_duration, o, Append(events, download))
    /\ segment_num' = segment_num + 1
    /\ cur' = cur + Interval
    /\ pc' = IF cur + Interval < RangeStop THEN "downloading" ELSE "completing"
    /\ UNCHANGED <<extraVars, config, source, start_time, end_time, video_duration,
                   segments_to_process, seg_i, cacheVars, chatVars>>

\* the end of both functions: load the analyses, register the run in the cache
Complete ==
    /\ pc = "completing"
    /\ clock < MaxClock
    /\ analyses' = load_all_analyses(SourceDir)
    /\ IF source.mode = "File"
       THEN /\ cache' = register_video_analysis(source.file, SourceDir)
            /\ registered' = Remember(compute_file_hash(source.file), SourceDir)
       ELSE LET start == IF config.enable_range THEN config.start_time ELSE 0
                end == IF config.enable_range THEN config.end_time ELSE 0
            IN  /\ cache' = register_url_analysis(source.url, SourceDir, start, end)
                /\ registered' = Remember(url_id(source.url, start, end), SourceDir)
    /\ clock' = clock + 1
    /\ pc' = "done"
    /\ UNCHANGED <<extraVars, written, config, source, start_time, end_time, video_duration, cur,
                   segments_to_process, seg_i, segment_num, requests, events, faults,
                   disk, current_analyses, lookup, chatVars>>

\* ------------------------------------------------------------------------
\* Chat (components/chat.py, utils/analysis.py)
\* ------------------------------------------------------------------------
Prompts == {"q"}

\* the "Max context length (segments)" slider of show_chat_page
SetMaxContext(m) ==
    /\ pc = "done"
    /\ analyses # <<>>
    /\ chat_config' = [chat_config EXCEPT !.max_context = m]
    /\ UNCHANGED <<extraVars, written, chat_history, chat_request, runVars, storeVars, cacheVars>>

\* the "Generate summary first" and "Include transcriptions in context" checkboxes
SetChatOptions(summarize_first, include_transcription) ==
    /\ pc = "done"
    /\ chat_config' = [chat_config EXCEPT !.summarize_first = summarize_first,
                                          !.include_transcription = include_transcription]
    /\ UNCHANGED <<extraVars, written, chat_history, chat_request, runVars, storeVars, cacheVars>>

\* the "Clear Chat History" button
ClearChatHistory ==
    /\ pc = "done"
    /\ chat_history # <<>>
    /\ chat_history' = <<>>
    /\ UNCHANGED <<extraVars, written, chat_config, chat_request, runVars, storeVars, cacheVars>>

\* analyses[:max_context] if max_context < len(analyses) else analyses
LimitContext(records, max_context) ==
    IF max_context < Len(records) THEN SubSeq(records, 1, max_context) ELSE records

\* the records the per-segment part of the context is built from
SegmentContext(records) ==
    [i \in 1..Len(records) |->
        [segment |-> records[i].segment, start_time |-> records[i].start_time,
         end_time |-> records[i].end_time, text |-> records[i].analysis]]

\* {"role": ..., "content": ...} for the turns of role user or assistant
ApiMessages(history) ==
    SelectSeq(history, LAMBDA msg : msg.role \in {"user", "assistant"})

\* outcome of the external calls of one query:
\* client     - whether st.session_state.aoai_client is set
\* summary_ok - whether the summary completion succeeds
\* create_ok  - whether the streaming completion is created
\* deltas     - number of text deltas the stream delivers
\* stream_ok  - whether the stream ends normally after them
ChatOutcomes ==
    [client : BOOLEAN, summary_ok : BOOLEAN, create_ok : BOOLEAN,
     deltas : 0..MaxDeltas, stream_ok : BOOLEAN]

ChatCost(o) ==
    IF o.client /\ o.summary_ok /\ o.create_ok /\ o.stream_ok THEN 0 ELSE 1

\* the outcomes that differ in effect, within the failure budget
ChatFeasible(o, summary) ==
    /\ faults + ChatCost(o) <= MaxFaults
    /\ ~o.client => (o.summary_ok /\ o.create_ok /\ o.stream_ok /\ o.deltas = 0)
    /\ ~o.summary_ok => (summary /\ o.create_ok /\ o.stream_ok /\ o.deltas = 0)
    /\ ~o.create_ok => (o.stream_ok /\ o.deltas = 0)

\* f"Segment {segment} ({start_time}-{end_time} seconds):\n{analysis}\n\n" of
\* each record, in the order of the list
RECURSIVE SegmentsText(_)
SegmentsText(records) ==
    IF records = <<>> THEN <<>>
    ELSE <<"Segment", ToString(Head(records).segment),
           ToString(Head(records).start_time), ToString(Head(records).end_time)>>
            \o Head(records).analysis \o SegmentsText(Tail(records))

\* the context string of chat_with_video_analysis
ContextText(records, summary) ==
    <<"Video Analysis Context:">>
        \o (IF summary THEN <<"Overall Summary:", "summary">> ELSE <<>>)
        \o SegmentsText(records)

\* variant: the summary call is issued whenever summarize_first is set
NeedsSummaryAlways(summarize_first, records) == summarize_first

\* if summarize_first and len(analyses) > 1
NeedsSummary(summarize_first, records) == summarize_first /\ Len(records) > 1

\* variant: the current query is put before the chat history
ChatMessagesQueryFirst(context, history, query) ==
    <<[role |-> "system", content |-> <<"You are an assistant">>],
      [role |-> "user", content |-> <<"Here is the video analysis to reference:">> \o context],
      [role |-> "user", content |-> <<query>>]>> \o history

\* the messages array of the streaming completion
ChatMessages(context, history, query) ==
    <<[role |-> "system", content |-> <<"You are an assistant">>],
      [role |-> "user", content |-> <<"Here is the video analysis to reference:">> \o context]>>
        \o history \o <<[role |-> "user", content |-> <<query>>]>>

\* chat_with_video_analysis: the completion calls it issues, the messages of
\* the streaming call, and whether it returns the error string
chat_with_video_analysis(query, records, history, summarize_first, o) ==
    LET summary == NeedsSummary(summarize_first, records)
    IN  IF summary /\ ~o.summary_ok
        THEN [calls |-> <<"summary">>, messages |-> <<>>, error |-> TRUE]
        ELSE [calls |-> (IF summary THEN <<"summary">> ELSE <<>>) \o <<"stream">>,
              messages |-> ChatMessages(ContextText(records, summary), history, query),
              error |-> ~o.create_ok]

\* the concatenation of the first k text deltas of the stream
Deltas(k) == [i \in 1..k |-> "delta" \o ToString(i)]

\* full_response of handle_chat_input
FullResponse(o, response) ==
    IF ~o.client
    THEN <<"Azure OpenAI client is not properly configured. Please check API settings.">>
    ELSE IF response.error THEN <<"Error generating response:", "completion">>
    ELSE IF ~o.stream_ok THEN <<"Error generating response:", "stream">>
    ELSE Deltas(o.deltas)

\* variant: the message replaces the history
add_chat_message_replacing(history, role, content) ==
    <<[role |-> role, content |-> content]>>

\* st.session_state.chat_history.append({"role": role, "content": content})
add_chat_message(history, role, content) ==
    Append(history, [role |-> role, content |-> content])

\* handle_chat_input(prompt)
HandleChatInput(prompt) ==
    /\ pc = "done"
    /\ Len(chat_history) < 2 * MaxQueries
    /\ \E o \in ChatOutcomes :
          LET limited_analyses == LimitContext(analyses, chat_config.max_context)
              api_messages == ApiMessages(chat_history)
              response == chat_with_video_analysis(prompt, limited_analyses, api_messages,
                                                   chat_config.summarize_first, o)
          IN  /\ ChatFeasible(o, NeedsSummary(chat_config.summarize_first, limited_analyses))
              /\ faults' = faults + ChatCost(o)
              /\ chat_request' =
                    [query |-> prompt, max_context |-> chat_config.max_context,
                     context |-> IF o.client THEN SegmentContext(limited_analyses) ELSE <<>>,
                     chat_history |-> api_messages,
                     calls |-> IF o.client THEN response.calls ELSE <<>>,
                     messages |-> IF o.client THEN response.messages ELSE <<>>,
                     summarize_first |-> chat_config.summarize_first,
                     include_transcription |-> chat_config.include_transcription,
                     outcome |-> o]
              /\ chat_history' =
                    add_chat_message(add_chat_message(chat_history, "user", <<prompt>>),
                                     "assistant", FullResponse(o, response))
    /\ UNCHANGED <<extraVars, written, chat_config, config, source, pc, start_time, end_time, video_duration,
                   cur, segments_to_process, seg_i, segment_num, requests, events,
                   storeVars, cacheVars>>

\* ------------------------------------------------------------------------
\* Pipeline runs
\* ------------------------------------------------------------------------
UploadedFiles ==
    { [name |-> [stem |-> "a", ext |-> ".mp4"], content |-> "X", size |-> count,
       total_frames |-> count, fps |-> fps] :
         count \in 1..MaxFrames, fps \in {1, TicksPerSecond} }

Sources ==
    { [mode |-> "File", file |-> f] : f \in UploadedFiles }
        \cup { [mode |-> "URL", url |-> "u", title |-> "t", duration |-> d] :
                  d \in 1..MaxUrlSeconds }

\* the settings of the Upload page: whole seconds, interval >= 1
Configs ==
    { [audio_transcription |-> a, segment_interval |-> i, enable_range |-> r,
       start_time |-> s, end_time |-> e] :
         a \in BOOLEAN, i \in 1..MaxInterval, r \in BOOLEAN,
         s \in 0..MaxWindow, e \in 0..MaxWindow }

InitRun ==
    /\ InitSession
    /\ InitExtra
    /\ InitIdle
    /\ InitCache
    /\ disk = EmptyDict
    /\ source \in Sources
    /\ config \in {c \in Configs : ~c.enable_range => (c.start_time = 0 /\ c.end_time = 0)}

NextRun ==
    \/ StartFileRun
    \/ ExtractSegment
    \/ ProcessSegment
    \/ StartUrlRun
    \/ DownloadAndProcess
    \/ Complete

SpecRun == InitRun /\ [][NextRun]_vars

\* short runs with one-second segments, no window and few failures; the script
\* runs each started function to its end
InitFair ==
    /\ InitSession
    /\ InitExtra
    /\ InitCache
    /\ disk = EmptyDict
    /\ pc = "idle"
    /\ start_time = 0
    /\ end_time = 0
    /\ video_duration = 0
    /\ cur = 0
    /\ segments_to_process = <<>>
    /\ seg_i = 0
    /\ segment_num = 0
    /\ requests = <<>>
    /\ events = <<>>
    /\ faults = MaxFaults - MaxFairFaults
    /\ config = [audio_transcription |-> TRUE, segment_interval |-> 1,
                 enable_range |-> FALSE, start_time |-> 0, end_time |-> 0]
    /\ source \in Sources
    /\ SourceDuration <= Seconds(MaxFairSeconds)

SpecRunFair == InitFair /\ [][NextRun]_vars /\ WF_vars(NextRun)

\* long runs without failures: one-second segments, no window
InitLong ==
    /\ InitSession
    /\ InitExtra
    /\ InitCache
    /\ disk = EmptyDict
    /\ pc = "idle"
    /\ start_time = 0
    /\ end_time = 0
    /\ video_duration = 0
    /\ cur = 0
    /\ segments_to_process = <<>>
    /\ seg_i = 0
    /\ segment_num = 0
    /\ requests = <<>>
    /\ events = <<>>
    /\ faults = MaxFaults
    /\ config = [audio_transcription |-> TRUE, segment_interval |-> 1,
                 enable_range |-> FALSE, start_time |-> 0, end_time |-> 0]
    /\ source \in
         { [mode |-> "File",
            file |-> [name |-> [stem |-> "a", ext |-> ".mp4"], content |-> "X",
                      size |-> d, total_frames |-> d, fps |-> 1]] : d \in 1..MaxLongSeconds }
           \cup { [mode |-> "URL", url |-> "u", title |-> "t", duration |-> d] :
                     d \in 1..MaxLongSeconds }

NextLong ==
    \/ NextRun
    \/ \E m \in 1..(Len(analyses) + 1) : SetMaxContext(m)
    \/ \E prompt \in Prompts : HandleChatInput(prompt)

SpecLong == InitLong /\ [][NextLong]_vars

\* short runs followed by a chat with all its settings and failures
InitChat ==
    /\ InitSession
    /\ InitExtra
    /\ InitCache
    /\ disk = EmptyDict
    /\ pc = "idle"
    /\ start_time = 0
    /\ end_time = 0
    /\ video_duration = 0
    /\ cur = 0
    /\ segments_to_process = <<>>
    /\ seg_i = 0
    /\ segment_num = 0
    /\ requests = <<>>
    /\ events = <<>>
    /\ faults = MaxFaults - MaxChatFaults
    /\ config = [audio_transcription |-> TRUE, segment_interval |-> 1,
                 enable_range |-> FALSE, start_time |-> 0, end_time |-> 0]
    /\ source \in Sources
    /\ SourceDuration <= Seconds(MaxChatSeconds)

NextChat ==
    \/ NextRun
    \/ \E m \in 1..Len(analyses) : SetMaxContext(m)
    \/ \E sf \in BOOLEAN, it \in BOOLEAN : SetChatOptions(sf, it)
    \/ \E prompt \in Prompts : HandleChatInput(prompt)
    \/ ClearChatHistory

SpecChat == InitChat /\ [][NextChat]_vars

\* ------------------------------------------------------------------------
\* The analysis store after a run: damaged files and the reload from the cache
\* ------------------------------------------------------------------------
\* a record file of the run's directory is damaged from outside the program
CorruptFile(n) ==
    /\ pc = "done"
    /\ faults < MaxFaults
    /\ n \in DOMAIN FilesOf(SourceDir)
    /\ ~IsCorrupt(FilesOf(SourceDir)[n])
    /\ disk' = WriteFile(SourceDir, n, [corrupt |-> TRUE])
    /\ faults' = faults + 1
    /\ UNCHANGED <<extraVars, written, config, source, pc, start_time, end_time, video_duration, cur,
                   segments_to_process, seg_i, segment_num, requests, events,
                   analyses, current_analyses, cacheVars, chatVars>>

\* the cache lookup of the Upload page for the selected source
CheckSource ==
    IF source.mode = "File" THEN check_video_analyzed(source.file)
    ELSE check_url_analyzed(source.url,
                            IF config.enable_range THEN config.start_time ELSE 0,
                            IF config.enable_range THEN config.end_time ELSE 0)

\* the "Load Previous Analysis" button of the Upload page
LoadPreviousAnalysis ==
    /\ pc = "done"
    /\ CheckSource \notin {None, Raised}
    /\ lookup' = [query |-> IF source.mode = "File" THEN source.file
                            ELSE [url |-> source.url,
                                  start_time |-> IF config.enable_range THEN config.start_time ELSE 0,
                                  end_time |-> IF config.enable_range THEN config.end_time ELSE 0],
                  key |-> RunKey, result |-> CheckSource]
    /\ analyses' = load_previous_analysis(CheckSource)
    /\ current_analyses' =
          [i \in 1..Len(load_previous_analysis(CheckSource)) |->
              [segment |-> load_previous_analysis(CheckSource)[i].segment,
               start_time |-> load_previous_analysis(CheckSource)[i].start_time,
               end_time |-> load_previous_analysis(CheckSource)[i].end_time,
               analysis |-> load_previous_analysis(CheckSource)[i].analysis,
               transcription |-> <<"None">>]]
    /\ UNCHANGED <<extraVars, written, runVars, disk, cache, clock, registered, chatVars>>

\* short runs, then damage to the stored files and reloads
InitStore ==
    /\ InitSession
    /\ InitExtra
    /\ InitCache
    /\ disk = EmptyDict
    /\ pc = "idle"
    /\ start_time = 0
    /\ end_time = 0
    /\ video_duration = 0
    /\ cur = 0
    /\ segments_to_process = <<>>
    /\ seg_i = 0
    /\ segment_num = 0
    /\ requests = <<>>
    /\ events = <<>>
    /\ faults = MaxFaults - MaxStoreFaults
    /\ config = [audio_transcription |-> TRUE, segment_interval |-> 1,
                 enable_range |-> FALSE, start_time |-> 0, end_time |-> 0]
    /\ source \in Sources
    /\ SourceDuration <= Seconds(MaxStoreSeconds)

NextStore ==
    \/ NextRun
    \/ \E n \in 1..MaxStoreSeconds : CorruptFile(n)
    \/ LoadPreviousAnalysis

SpecStore == InitStore /\ [][NextStore]_vars

\* ------------------------------------------------------------------------
\* The cache index under direct calls of its functions
\* ------------------------------------------------------------------------
CacheFiles ==
    { [name |-> [stem |-> "a", ext |-> ".mp4"], content |-> "X", size |-> 1],
      [name |-> [stem |-> "b", ext |-> ".mp4"], content |-> "X", size |-> 1],
      [name |-> [stem |-> "a", ext |-> ".mp4"], content |-> "Y", size |-> 2] }
CacheUrls == {"u"}
CacheDirs == {VideoDir("a"), VideoDir("b")}
CacheWindowEnds == {0}

RegisterVideoAnalysis(file, analysis_dir) ==
    /\ clock < MaxClock
    /\ cache' = register_video_analysis(file, analysis_dir)
    /\ registered' = IF file = NoFile THEN registered
                     ELSE Remember(compute_file_hash(file), analysis_dir)
    /\ clock' = clock + 1
    /\ UNCHANGED <<extraVars, written, lookup, runVars, storeVars, chatVars>>

RegisterUrlAnalysis(url, analysis_dir, start, end) ==
    /\ clock < MaxClock
    /\ cache' = register_url_analysis(url, analysis_dir, start, end)
    /\ registered' = IF url = "" THEN registered
                     ELSE Remember(url_id(url, start, end), analysis_dir)
    /\ clock' = clock + 1
    /\ UNCHANGED <<extraVars, written, lookup, runVars, storeVars, chatVars>>

CheckVideoAnalyzed(file) ==
    /\ lookup' = [query |-> file,
                  key |-> IF file = NoFile THEN NoKey ELSE compute_file_hash(file),
                  result |-> check_video_analyzed(file)]
    /\ UNCHANGED <<extraVars, written, cache, clock, registered, runVars, storeVars, chatVars>>

CheckUrlAnalyzed(url, start, end) ==
    /\ lookup' = [query |-> [url |-> url, start_time |-> start, end_time |-> end],
                  key |-> IF url = "" THEN NoKey ELSE url_id(url, start, end),
                  result |-> check_url_analyzed(url, start, end)]
    /\ UNCHANGED <<extraVars, written, cache, clock, registered, runVars, storeVars, chatVars>>

CreateDirectory(video_dir) ==
    /\ disk' = MakeDirs(video_dir)
    /\ UNCHANGED <<extraVars, written, analyses, current_analyses, runVars, cacheVars, chatVars>>

\* the directory is deleted from outside the program
DeleteDirectory(video_dir) ==
    /\ video_dir \in DOMAIN disk
    /\ disk' = [d \in DOMAIN disk \ {video_dir} |-> disk[d]]
    /\ UNCHANGED <<extraVars, written, analyses, current_analyses, runVars, cacheVars, chatVars>>

InitCacheSpec ==
    /\ InitSession
    /\ InitExtra
    /\ InitIdle
    /\ InitCache
    /\ config = DefaultConfig
    /\ source = NoSource
    /\ disk = EmptyDict

NextCache ==
    \/ \E file \in CacheFiles \cup {NoFile}, d \in CacheDirs : RegisterVideoAnalysis(file, d)
    \/ \E url \in CacheUrls \cup {""}, d \in CacheDirs, end \in CacheWindowEnds :
          RegisterUrlAnalysis(url, d, 0, end)
    \/ \E file \in CacheFiles \cup {NoFile} : CheckVideoAnalyzed(file)
    \/ \E url \in CacheUrls \cup {""}, end \in CacheWindowEnds : CheckUrlAnalyzed(url, 0, end)
    \/ \E d \in CacheDirs : CreateDirectory(d)
    \/ \E d \in CacheDirs : DeleteDirectory(d)

SpecCache == InitCacheSpec /\ [][NextCache]_vars

\* open or json.load of the index file starts to fail (the file is locked,
\* truncated or not valid JSON); its content stays on disk
IndexUnreadable ==
    /\ cache.readable
    /\ cache' = [cache EXCEPT !.readable = FALSE]
    /\ UNCHANGED <<extraVars, written, clock, lookup, registered, runVars, storeVars, chatVars>>

NextIndex ==
    \/ NextCache
    \/ IndexUnreadable

SpecIndex == InitCacheSpec /\ [][NextIndex]_vars

\* ------------------------------------------------------------------------
\* Properties of a pipeline run
\* ------------------------------------------------------------------------
IsPrefix(p, t) == Len(p) <= Len(t) /\ SubSeq(t, 1, Len(p)) = p

\* the segments the loops enumerated, in order
Plan == SelectSeq(events, LAMBDA ev : ev.op \in {"extract", "download"})
Processed == SelectSeq(events, LAMBDA ev : ev.op = "process")

Ceil(a, b) == (a + b - 1) \div b

\* C1: every analyze_video call for a segment k > 0 whose predecessor k-1 was
\* analysed and persisted in the run is handed a non-empty previous_summary that
\* is the analysis text of segment k-1, or a prefix of it, and of no other segment.
C1_ContextCarry ==
    \A k \in 1..Len(requests) :
        (requests[k].segment_num > 0
           /\ \E j \in 1..(k - 1) : requests[j].segment_num = requests[k].segment_num - 1)
        => /\ Truthy(requests[k].previous_summary)
           /\ \A j \in 1..(k - 1) :
                 IsPrefix(requests[k].previous_summary, requests[j].analysis)
                    <=> requests[j].segment_num = requests[k].segment_num - 1

\* C2: when a run has persisted the files segment_1 .. segment_n into an empty
\* directory, load_all_analyses and load_previous_analysis return the n records
\* in the order of the segment index 1, 2, ..., n.
C2_LoadOrder ==
    LET files == FilesOf(SourceDir)
        n == Cardinality(DOMAIN files)
    IN  (pc = "done" /\ n >= 1 /\ DOMAIN files = 1..n)
        => /\ Len(load_all_analyses(SourceDir)) = n
           /\ Len(load_previous_analysis(SourceDir)) = n
           /\ \A i \in 1..n :
                 /\ load_all_analyses(SourceDir)[i].segment = i
                 /\ load_previous_analysis(SourceDir)[i].segment = i

\* C3: the context built for a chat query over n stored records with
\* max_context m >= 1 holds exactly the segments 1 .. min(m, n), in this order.
C3_EarliestFirst ==
    LET n == Cardinality(DOMAIN FilesOf(SourceDir))
        m == chat_request.max_context
    IN  (chat_request.query # "" /\ m >= 1)
        => /\ Len(chat_request.context) = Min(m, n)
           /\ \A i \in 1..Len(chat_request.context) : chat_request.context[i].segment = i

\* C4: with the window disabled, a run over a source of duration D > 0 with
\* interval I >= 1 enumerates exactly ceil(D / I) segments, the first starting
\* at 0, each starting where the one before ends, each of length I except
\* possibly the last, and the last ending at D.
C4_PlanCovers ==
    (pc \in {"completing", "done"} /\ ~config.enable_range)
    => /\ Len(Plan) = Ceil(SourceDuration, Interval)
       /\ Plan[1].start = 0
       /\ Plan[Len(Plan)].end = SourceDuration
       /\ \A j \in 1..(Len(Plan) - 1) :
             /\ Plan[j].end = Plan[j + 1].start
             /\ Plan[j].end - Plan[j].start = Interval

\* the end of the window after "end = 0 means the duration" and clamping
ClaimedEnd ==
    LET e0 == Seconds(config.end_time)
        e1 == IF e0 = 0 THEN SourceDuration ELSE e0
    IN  IF e1 > SourceDuration THEN SourceDuration ELSE e1

\* C5: a run with the window enabled whose start is not before the defaulted
\* and clamped end stops before any segment is extracted, downloaded or
\* processed, and persists and analyses nothing.
C5_InvalidWindowStops ==
    (pc # "idle" /\ config.enable_range /\ Seconds(config.start_time) >= ClaimedEnd)
    => /\ pc = "stopped"
       /\ events = <<>>
       /\ requests = <<>>
       /\ FilesOf(SourceDir) = EmptyDict

\* C5 witness: a window with start < end in the settings was rejected because
\* the clamped end is not after the start, and nothing was done.
C5_Witness ==
    /\ pc = "stopped"
    /\ config.enable_range
    /\ config.start_time < config.end_time
    /\ Seconds(config.end_time) > SourceDuration
    /\ events = <<>>

\* C6: with the window enabled, the end of the window the run works with is the
\* source duration when the configured end_time is 0 or exceeds the duration,
\* and the configured end_time otherwise; no enumerated segment ends after the
\* source duration.
C6_EffectiveEnd ==
    (pc # "idle" /\ config.enable_range)
    => /\ end_time = (IF config.end_time = 0 \/ Seconds(config.end_time) > SourceDuration
                      THEN SourceDuration ELSE Seconds(config.end_time))
       /\ \A j \in 1..Len(Plan) :
             /\ Plan[j].end <= SourceDuration
             /\ Plan[j].end <= end_time

\* C6 witness: a completed run whose configured end exceeded the duration, and
\* whose last segment ends at the duration.
C6_Witness ==
    /\ pc = "done"
    /\ config.enable_range
    /\ Seconds(config.end_time) > SourceDuration
    /\ Plan # <<>>
    /\ Plan[Len(Plan)].end = SourceDuration

\* the only off-nominal results of the run are those process_audio met
OnlyAudioFailures ==
    /\ \A j \in 1..Len(Plan) : Plan[j].ok
    /\ \A j \in 1..Len(Processed) :
          /\ Processed[j].ext = ".mp4"
          /\ ~Processed[j].raises
          /\ Processed[j].analysis_ok

\* C10: in a completed run with audio transcription enabled in which nothing
\* but transcriptions failed, analyze_video was called for every enumerated
\* segment, also the ones whose transcription failed, every segment has its
\* record with the analysis text of a failure-free run, the segments whose
\* transcription succeeded were analysed with their transcription, and the run
\* loaded the analyses and registered the directory in the cache.
C10_TranscriptionIsolated ==
    (pc = "done" /\ config.audio_transcription /\ OnlyAudioFailures)
    => /\ Len(requests) = Len(Plan)
       /\ Len(Processed) = Len(Plan)
       /\ \A k \in 1..Len(Plan) :
             /\ requests[k].segment_num = k - 1
             /\ requests[k].start_time = Plan[k].start
             /\ requests[k].end_time = Plan[k].end
             /\ requests[k].analysis = <<"analysis", ToString(Plan[k].start), ToString(Plan[k].end)>>
             /\ Processed[k].audio = "ok"
                   => requests[k].transcription = <<"speech", ToString(Plan[k].start)>>
             /\ k \in DOMAIN FilesOf(SourceDir)
             /\ FilesOf(SourceDir)[k] =
                   [segment |-> k, start_time |-> Plan[k].start, end_time |-> Plan[k].end,
                    analysis |-> requests[k].analysis]
       /\ analyses = load_all_analyses(SourceDir)
       /\ Len(analyses) = Len(Plan)
       /\ CheckEntry(RunKey) = SourceDir

\* C10 witness: a completed run in which the transcription service failed for a
\* segment that is not the last one, and all segments are persisted.
C10_Witness ==
    /\ pc = "done"
    /\ config.audio_transcription
    /\ OnlyAudioFailures
    /\ \E k \in 1..(Len(Processed) - 1) : Processed[k].audio = "service_error"
    /\ Len(requests) = Len(Plan)
    /\ DOMAIN FilesOf(SourceDir) = 1..Len(Plan)

\* ------------------------------------------------------------------------
\* Properties of the cache index
\* ------------------------------------------------------------------------
CacheKeys ==
    {compute_file_hash(f) : f \in CacheFiles}
        \cup {url_id(u, 0, e) : u \in CacheUrls, e \in CacheWindowEnds}

\* C7: a cache lookup (check_video_analyzed, check_url_analyzed) never raises,
\* returns a path only if that directory exists at the time of the lookup, and
\* returns None when the directory of the registered entry no longer exists.
C7_SelfHealing ==
    [][lookup' # lookup =>
        /\ lookup'.result # Raised
        /\ lookup'.result # None => lookup'.result \in DOMAIN disk'
        /\ (lookup'.key \in DOMAIN registered'
              /\ registered'[lookup'.key].analysis_dir \notin DOMAIN disk')
           => lookup'.result = None]_vars

\* C7 witness: a lookup of an entry whose directory existed when it was
\* registered and has been deleted since returned None.
C7_Witness ==
    /\ lookup.key \in DOMAIN registered
    /\ registered[lookup.key].existed
    /\ registered[lookup.key].analysis_dir \notin DOMAIN disk
    /\ lookup.result = None

\* C8: right after register_video_analysis(f1, dir) with dir existing,
\* check_video_analyzed(f2) is dir for every file f2 with the content of f1,
\* whatever its name; and check_video_analyzed is None for a file whose content
\* hash was never registered.
C8_ContentAddressed ==
    /\ [][\A f1 \in CacheFiles, d \in CacheDirs :
            (RegisterVideoAnalysis(f1, d) /\ d \in DOMAIN disk) =>
                \A f2 \in CacheFiles :
                    f2.content = f1.content => check_video_analyzed(f2)' = d]_vars
    /\ [](\A f \in CacheFiles :
            compute_file_hash(f) \notin DOMAIN registered => check_video_analyzed(f) = None)

\* C8 witness: a lookup with a file returned the directory that was registered
\* with a file of another name.
C8_Witness ==
    /\ lookup.query \in CacheFiles
    /\ lookup.result \in CacheDirs
    /\ lookup.key \in DOMAIN get_analysis_cache
    /\ get_analysis_cache[lookup.key].filename # lookup.query.name
    /\ lookup.result = registered[lookup.key].analysis_dir

\* C9: registering a fingerprint again with the directory it already has leaves
\* the set of index entries and the entry's directory as they were; and in every
\* state the lookup of a registered fingerprint whose last registered directory
\* exists returns that last registered directory.
C9_IdempotentUpsert ==
    /\ [][\A k \in CacheKeys :
            (k \in DOMAIN registered /\ registered'[k].dirs # registered[k].dirs
               /\ registered'[k].analysis_dir = registered[k].analysis_dir)
            => /\ DOMAIN get_analysis_cache' = DOMAIN get_analysis_cache
               /\ get_analysis_cache'[k].analysis_dir = registered[k].analysis_dir]_vars
    /\ [](\A k \in DOMAIN registered :
            registered[k].analysis_dir \in DOMAIN disk
                => CheckEntry(k) = registered[k].analysis_dir)

\* C9 witness: a fingerprint was registered twice with one directory and then
\* with another one, and the lookup returned the last one.
C9_Witness ==
    /\ lookup.key \in DOMAIN registered
    /\ Len(registered[lookup.key].dirs) = 3
    /\ registered[lookup.key].dirs[1] = registered[lookup.key].dirs[2]
    /\ registered[lookup.key].dirs[3] # registered[lookup.key].dirs[2]
    /\ lookup.result = registered[lookup.key].dirs[3]

\* ------------------------------------------------------------------------
\* Properties of the failure handling of a run
\* ------------------------------------------------------------------------
\* the execute_video_processing calls that reached analyze_video; the k-th of
\* them issued requests[k]
Analysed == SelectSeq(Processed, LAMBDA ev : ev.ok)

\* C11: whenever the audio extraction or the speech-to-text call fails for a
\* segment with an audio track, the transcription handed to analyze_video for
\* that segment is the sentinel "Audio processing failed.".
C11_FailureSentinel ==
    \A k \in 1..Len(requests) :
        (config.audio_transcription /\ Analysed[k].audio \in {"service_error", "clip_error"})
        => requests[k].transcription = <<"Audio processing failed.">>

\* the segments that were extracted or downloaded, in order
Delivered == SelectSeq(Plan, LAMBDA ev : ev.ok)

\* C12: when the completion call fails for a segment, the analysis text starts
\* with "ERROR:", the record of the segment holds that text unchanged together
\* with the segment's number and times, and the run goes on: at the end of the
\* run every extracted or downloaded segment has been processed, in order.
C12_AnalysisFailureRecorded ==
    \A k \in 1..Len(requests) :
        ~Analysed[k].analysis_ok
        => /\ Head(requests[k].analysis) = "ERROR:"
           /\ (requests[k].segment_num + 1) \in DOMAIN FilesOf(SourceDir)
           /\ FilesOf(SourceDir)[requests[k].segment_num + 1] =
                 [segment |-> requests[k].segment_num + 1,
                  start_time |-> Analysed[k].start, end_time |-> Analysed[k].end,
                  analysis |-> requests[k].analysis]
           /\ pc \in {"completing", "done"}
                 => /\ Len(Processed) = Len(Delivered)
                    /\ \A j \in 1..Len(Processed) : Processed[j].start = Delivered[j].start

\* C12 witness: a completed run in which the completion call failed for a
\* segment, its record holds the error text, and a later segment was analysed.
C12_Witness ==
    /\ pc = "done"
    /\ \E k \in 1..(Len(requests) - 1) :
          /\ ~Analysed[k].analysis_ok
          /\ Analysed[k + 1].analysis_ok
          /\ Head(FilesOf(SourceDir)[requests[k].segment_num + 1].analysis) = "ERROR:"
          /\ Head(FilesOf(SourceDir)[requests[k + 1].segment_num + 1].analysis) = "analysis"

\* first value of range(...) of the segment loop
PlanFirst ==
    IF source.mode = "File" THEN IntPart(IF config.enable_range THEN start_time ELSE 0)
    ELSE start_time

\* C13: whatever extractions, downloads and processing calls fail, the loop
\* enumerates every segment of its range in increasing order of start time,
\* every extracted or downloaded segment is processed, one after the other in
\* that order, and every started run reaches its completion step.
C13_FailuresDoNotAbort ==
    /\ [](/\ \A j \in 1..Len(Plan) : Plan[j].start = PlanFirst + (j - 1) * Interval
          /\ Len(Processed) <= Len(Delivered)
          /\ \A j \in 1..Len(Processed) : Processed[j].start = Delivered[j].start
          /\ pc \in {"completing", "done"}
                => /\ PlanFirst + Len(Plan) * Interval >= RangeStop
                   /\ Len(Processed) = Len(Delivered))
    /\ (pc \in {"extracting", "processing", "downloading", "completing"} ~> pc = "done")

\* C13 witness: a completed run in which an extraction, a download or a
\* processing call of one segment failed and a later segment was processed.
C13_Witness ==
    /\ pc = "done"
    /\ \E i, k \in 1..Len(events) :
          /\ i < k
          /\ ~events[i].ok
          /\ events[k].op = "process" /\ events[k].ok
          /\ events[k].start > events[i].start

\* ------------------------------------------------------------------------
\* Properties of the chat
\* ------------------------------------------------------------------------
\* the assistant's turn of the last query
LastTurn == chat_history[Len(chat_history)]

\* the stream of the last query raised after at least one delta
StreamBroke ==
    /\ chat_history # <<>>
    /\ chat_request.outcome.client
    /\ "stream" \in {chat_request.calls[i] : i \in 1..Len(chat_request.calls)}
    /\ chat_request.outcome.create_ok
    /\ ~chat_request.outcome.stream_ok
    /\ chat_request.outcome.deltas >= 1

\* C14: when the stream of a query raises after k >= 1 deltas, the assistant's
\* turn appended to the history is the text of the k deltas followed by an
\* error notice.
C14_PartialAnswerKept ==
    StreamBroke
    => /\ LastTurn.role = "assistant"
       /\ IsPrefix(Deltas(chat_request.outcome.deltas), LastTurn.content)
       /\ Len(LastTurn.content) > chat_request.outcome.deltas

\* the assistant's text the outcome of a query calls for: the client-missing
\* message, an error message, or the streamed answer
ResponseOrError(o, text) ==
    IF ~o.client
    THEN text = <<"Azure OpenAI client is not properly configured. Please check API settings.">>
    ELSE IF ~(o.summary_ok /\ o.create_ok /\ o.stream_ok)
    THEN Head(text) = "Error generating response:"
    ELSE text = Deltas(o.deltas)

Contains(text, part) ==
    \E p \in 1..(Len(text) - Len(part) + 1) : SubSeq(text, p, p + Len(part) - 1) = part

\* the content of the context message of the last streaming call
ContextMessage == chat_request.messages[2].content

\* C16: when a query is sent with include_transcription set, the context
\* holds, for every retained record whose segment was transcribed to a
\* non-empty text, that transcription; when the flag is not set the context
\* holds no transcription.
C16_TranscriptionsInContext ==
    chat_request.messages # <<>>
    => \A i \in 1..Len(chat_request.context) : \A k \in 1..Len(requests) :
          (requests[k].segment_num + 1 = chat_request.context[i].segment
             /\ Truthy(requests[k].transcription))
          => (chat_request.include_transcription
                <=> Contains(ContextMessage, requests[k].transcription))

\* number of summary calls of the last query
SummaryCalls ==
    Cardinality({i \in 1..Len(chat_request.calls) : chat_request.calls[i] = "summary"})

\* C17: a query issues exactly one summary call, before the streaming call,
\* when summarize_first is set and more than one record is retained, and then
\* the context of the streaming call holds "Overall Summary:" with the result
\* before the first segment text; otherwise it issues no summary call and the
\* context holds no overall summary.
C17_SummaryCall ==
    (chat_request.query # "" /\ chat_request.outcome.client)
    => IF chat_request.summarize_first /\ Len(chat_request.context) > 1
       THEN /\ SummaryCalls = 1
            /\ Head(chat_request.calls) = "summary"
            /\ chat_request.messages # <<>>
                  => /\ SubSeq(ContextMessage, 3, 4) = <<"Overall Summary:", "summary">>
                     /\ \A q \in 1..Len(ContextMessage) : ContextMessage[q] = "Segment" => q > 4
       ELSE /\ SummaryCalls = 0
            /\ chat_request.calls = <<"stream">>
            /\ \A q \in 1..Len(ContextMessage) : ContextMessage[q] # "Overall Summary:"

\* C17 witness: a query over two or more retained records with summarize_first
\* issued the summary call and then the streaming call with the overall summary.
C17_Witness ==
    /\ chat_request.summarize_first
    /\ Len(chat_request.context) > 1
    /\ chat_request.calls = <<"summary", "stream">>
    /\ Contains(ContextMessage, <<"Overall Summary:", "summary", "Segment">>)

\* C18: the messages of the streaming call are the system prompt, one user
\* message with the analysis context, the turns the history held before the
\* query in their order, and the query as the last message.
C18_MessageOrder ==
    chat_request.messages # <<>>
    => LET msgs == chat_request.messages
           prior == SubSeq(chat_history, 1, Len(chat_history) - 2)
       IN  /\ msgs[1].role = "system"
           /\ msgs[2].role = "user"
           /\ SubSeq(msgs[2].content, 1, 2) =
                 <<"Here is the video analysis to reference:", "Video Analysis Context:">>
           /\ msgs[Len(msgs)] = [role |-> "user", content |-> <<chat_request.query>>]
           /\ Len(msgs) = Len(chat_request.chat_history) + 3
           /\ SubSeq(msgs, 3, Len(msgs) - 1) = chat_request.chat_history
           /\ chat_history # <<>>
                 => chat_request.chat_history = ApiMessages(prior)

\* C18 witness: the streaming call of a second query carried the two turns of
\* the first query between the context message and the query.
C18_Witness ==
    /\ Len(chat_history) = 4
    /\ Len(chat_request.messages) = 5
    /\ chat_request.messages[3] = chat_history[1]
    /\ chat_request.messages[4] = chat_history[2]
    /\ chat_request.messages[5].content = <<chat_request.query>>

\* ------------------------------------------------------------------------
\* Properties of the registration of a run and of the loaders
\* ------------------------------------------------------------------------
\* the window the run segmented: the validated bounds, or the whole source
EffectiveWindow ==
    IF config.enable_range THEN <<start_time, end_time>> ELSE <<0, SourceDuration>>

\* the window a fingerprint is built from, if it is built from one
KeyWindow(key) ==
    IF Len(key) = 4 THEN <<Seconds(key[3]), Seconds(key[4])>> ELSE <<>>

\* C19: the fingerprint a completed run is registered under is built from the
\* source identity and the validated window of the run (end_time = 0 replaced
\* by the duration, end_time clamped to the duration).
C19_ValidatedWindowKey ==
    pc = "done"
    => \A key \in DOMAIN registered :
          /\ key \in DOMAIN get_analysis_cache
          /\ KeyWindow(key) = EffectiveWindow

\* the records of the readable files of a directory, in the order of the names
ReadableRecords(video_dir) ==
    LET files == FilesOf(video_dir)
        names == SortedFiles(DOMAIN files)
    IN  SelectSeq([i \in 1..Len(names) |-> files[names[i]]], LAMBDA rec : ~IsCorrupt(rec))

\* C20: whatever files of the run's directory are damaged, load_all_analyses
\* and load_previous_analysis return the records of all other files, in order.
C20_BestEffortLoad ==
    (pc = "done" /\ DirExists(SourceDir))
    => /\ load_all_analyses(SourceDir) = ReadableRecords(SourceDir)
       /\ load_previous_analysis(SourceDir) = ReadableRecords(SourceDir)

\* ------------------------------------------------------------------------
\* Properties of the records and requests of one run
\* ------------------------------------------------------------------------
\* C27: at the end of a run into an empty directory the persisted records have
\* exactly the indices 1..n, n the number of segments processed with success,
\* each record carries the index of its file, and no index was written twice.
C27_ContiguousIndices ==
    pc \in {"completing", "done"}
    => /\ DOMAIN FilesOf(SourceDir) = 1..Len(requests)
       /\ \A i \in DOMAIN FilesOf(SourceDir) : FilesOf(SourceDir)[i].segment = i
       /\ \A j, k \in 1..Len(requests) :
             j # k => requests[j].segment_num # requests[k].segment_num

\* C28: every analyze_video call states times with
\* 0 <= start_time < end_time <= total_duration.
C28_TimingConsistent ==
    \A k \in 1..Len(requests) :
        /\ 0 <= requests[k].start_time
        /\ requests[k].start_time < requests[k].end_time
        /\ requests[k].end_time <= requests[k].total_duration

\* ------------------------------------------------------------------------
\* Properties of the index file
\* ------------------------------------------------------------------------
\* C29: a register call for one fingerprint leaves the entry of every other
\* fingerprint in the index file as it was, also when the file cannot be read.
C29_RegisterFrame ==
    [][\A f \in CacheKeys :
          (f \in DOMAIN registered' /\ (f \in DOMAIN registered
                                          => registered'[f].dirs # registered[f].dirs))
          => \A g \in DOMAIN cache.entries \ {f} :
                /\ g \in DOMAIN cache'.entries
                /\ cache'.entries[g] = cache.entries[g]]_vars

\* ------------------------------------------------------------------------
\* Frame sampling: process_video (utils/video_processing.py)
\* Rates are in tenths of a frame per second, the step of the
\* "Frames per second" input.
\* ------------------------------------------------------------------------
\* CAP_PROP_FPS of the segment files
NativeRates == {10, 20, 30}

\* values of the "Frames per second" input (min_value=0.1, max_value=30.0)
SampleRates == {5, 10, 20, 30, 300}

\* frames_to_skip = int(fps / frames_per_second)
frames_to_skip == video.fps \div video.frames_per_second

\* process_video up to the loop: the capture is opened, its frame count and
\* rate are read
OpenVideo(total_frames, fps, frames_per_second) ==
    /\ sample_pc = "idle"
    /\ video' = [total_frames |-> total_frames, fps |-> fps,
                 frames_per_second |-> frames_per_second]
    /\ curr_frame' = 0
    /\ frames' = <<>>
    /\ sample_pc' = "loop"
    /\ UNCHANGED <<runVars, storeVars, cacheVars, chatVars, written, pageVars, writers,
                   authVars>>

\* one iteration of "while curr_frame < total_frames - 1"
ReadFrame ==
    /\ sample_pc = "loop"
    /\ curr_frame < video.total_frames - 1
    /\ Len(frames) < MaxSamples
    /\ \E success \in BOOLEAN :
          IF success
          THEN /\ frames' = Append(frames, curr_frame)
               /\ curr_frame' = curr_frame + frames_to_skip
               /\ sample_pc' = "loop"
          ELSE /\ sample_pc' = "returned"
               /\ UNCHANGED <<frames, curr_frame>>
    /\ UNCHANGED <<runVars, storeVars, cacheVars, chatVars, written, pageVars, writers,
                   authVars, video>>

\* the loop condition fails: video.release(), return base64Frames
ReturnFrames ==
    /\ sample_pc = "loop"
    /\ ~(curr_frame < video.total_frames - 1)
    /\ sample_pc' = "returned"
    /\ UNCHANGED <<runVars, storeVars, cacheVars, chatVars, written, pageVars, writers,
                   authVars, video, frames, curr_frame>>

NextSample ==
    \/ \E total_frames \in 0..MaxTotalFrames, fps \in NativeRates,
          frames_per_second \in SampleRates :
             OpenVideo(total_frames, fps, frames_per_second)
    \/ ReadFrame
    \/ ReturnFrames

SpecSample == InitCacheSpec /\ [][NextSample]_vars

\* ------------------------------------------------------------------------
\* C21: process_video samples at most total_frames frames, at strictly
\* increasing positions starting at frame 0, for every native rate and every
\* configured rate, also a configured rate above the native one (so that the
\* loop ends and the list is finite).
C21_SamplingTerminates ==
    /\ Len(frames) <= video.total_frames
    /\ frames # <<>> => frames[1] = 0
    /\ \A i, j \in 1..Len(frames) : i < j => frames[i] < frames[j]

\* ------------------------------------------------------------------------
\* Two processes registering runs in the same index file
\* (utils/analysis_cache.py)
\* ------------------------------------------------------------------------
\* register_video_analysis up to "cache = get_analysis_cache()": the process
\* holds what it read.  overlap records that the call ran while a call of the
\* other process was between its read and its write.
WriterGet(w, file, analysis_dir) ==
    /\ writers[w].pc \in {"idle", "done"}
    /\ writers' = [v \in Writers |->
                     IF v = w
                     THEN [pc |-> "read", file |-> file, analysis_dir |-> analysis_dir,
                           cache |-> get_analysis_cache,
                           overlap |-> \E u \in Writers \ {w} : writers[u].pc = "read"]
                     ELSE [writers[v] EXCEPT !.overlap = @ \/ writers[v].pc = "read"]]
    /\ UNCHANGED <<runVars, storeVars, cacheVars, chatVars, written, pageVars, frameVars,
                   authVars>>

\* variant: the entry is written into a new dict
WriterEntriesFresh(w) ==
    DictSet(EmptyDict, compute_file_hash(writers[w].file),
            [filename |-> writers[w].file.name, size |-> writers[w].file.size,
             analysis_dir |-> writers[w].analysis_dir, timestamp |-> clock])

\* "cache[file_hash] = {...}" on the dict the process read
WriterEntries(w) ==
    DictSet(writers[w].cache, compute_file_hash(writers[w].file),
            [filename |-> writers[w].file.name, size |-> writers[w].file.size,
             analysis_dir |-> writers[w].analysis_dir, timestamp |-> clock])

\* the rest of register_video_analysis: the entry is set and the dict is saved
WriterSave(w) ==
    /\ writers[w].pc = "read"
    /\ clock < MaxClock
    /\ cache' = save_analysis_cache(WriterEntries(w))
    /\ registered' = Remember(compute_file_hash(writers[w].file), writers[w].analysis_dir)
    /\ clock' = clock + 1
    /\ writers' = [writers EXCEPT ![w].pc = "done"]
    /\ UNCHANGED <<runVars, storeVars, lookup, chatVars, written, pageVars, frameVars,
                   authVars>>

NextRace ==
    \/ \E w \in Writers, file \in CacheFiles, d \in CacheDirs : WriterGet(w, file, d)
    \/ \E w \in Writers : WriterSave(w)

SpecRace == InitCacheSpec /\ [][NextRace]_vars

\* the last register calls of the two processes are complete and were made
\* for two different fingerprints
BothRegistered ==
    /\ \A w \in Writers : writers[w].pc = "done"
    /\ compute_file_hash(writers[1].file) # compute_file_hash(writers[2].file)

\* ------------------------------------------------------------------------
\* C23: two register calls for different fingerprints that run one after the
\* other leave both entries in the index; interleaved calls (each reads, then
\* each writes) can leave only one of the two entries.
C23_SequentialKeepsBoth ==
    (BothRegistered /\ \A w \in Writers : ~writers[w].overlap)
    => \A w \in Writers : compute_file_hash(writers[w].file) \in DOMAIN cache.entries

\* the lost update: both calls are complete, they overlapped, and the index
\* holds the entry of one process only
C23_Witness ==
    /\ BothRegistered
    /\ \A w \in Writers : writers[w].overlap
    /\ \E w \in Writers :
          /\ compute_file_hash(writers[w].file) \in DOMAIN cache.entries
          /\ \A v \in Writers \ {w} :
                compute_file_hash(writers[v].file) \notin DOMAIN cache.entries

\* ------------------------------------------------------------------------
\* The single-file app: URL processing of video_analysis.py
\* ------------------------------------------------------------------------
\* "Add range validation after getting video duration": video_duration
\* becomes the length of the window
LegacyStartUrlRun ==
    /\ pc = "idle"
    /\ source.mode = "URL"
    /\ LET duration == Seconds(source.duration)
           start == IF config.enable_range THEN Seconds(config.start_time) ELSE 0
           end == IF config.enable_range
                  THEN EffectiveEnd(Seconds(config.end_time), duration)
                  ELSE duration
       IN  /\ disk' = MakeDirs(SourceDir)
           /\ start_time' = start
           /\ end_time' = end
           /\ IF config.enable_range /\ ~ValidWindow(start, end)
              THEN /\ pc' = "stopped"
                   /\ video_duration' = duration
                   /\ cur' = 0
              ELSE /\ video_duration' = IF config.enable_range THEN end - start ELSE duration
                   /\ cur' = start
                   /\ pc' = IF start < end THEN "downloading" ELSE "completing"
    /\ current_analyses' = <<>>
    /\ UNCHANGED <<extraVars, written, config, source, segments_to_process, seg_i,
                   segment_num, requests, events, faults, analyses, cacheVars, chatVars>>

\* end = min(start + shot_interval, video_duration)
LegacySegmentEnd(start) == Min(start + Interval, video_duration)

\* the record execute_video_processing of video_analysis.py writes
LegacyRecord(number, start, end) ==
    [segment |-> number + 1, start_time |-> start, end_time |-> end,
     analysis |-> analyze_video(TRUE, start, end),
     summary |-> analyze_video(TRUE, start, end)]

\* one iteration of "Download and process video in segments"; an exception of
\* the download or of the processing leaves the loop for the handler of the
\* whole branch
LegacyDownloadAndProcess ==
    /\ pc = "downloading"
    /\ \E ok \in BOOLEAN :
          LET end == LegacySegmentEnd(cur)
              rec == LegacyRecord(segment_num, cur, end)
          IN  /\ events' = Append(events, [op |-> "download", start |-> cur,
                                           end |-> end, ok |-> ok])
              /\ IF ok
                 THEN /\ disk' = WriteFile(SourceDir, segment_num + 1, rec)
                      /\ current_analyses' = Append(current_analyses,
                            [segment |-> rec.segment, start_time |-> cur, end_time |-> end,
                             analysis |-> rec.analysis,
                             transcription |-> IF config.audio_transcription
                                               THEN process_audio("ok", cur)
                                               ELSE <<"None">>])
                      /\ analyses' = LoadFiles(WriteFile(SourceDir, segment_num + 1,
                                                         rec)[SourceDir])
                      /\ written' = [p \in DOMAIN written \cup {<<SourceDir, segment_num + 1>>}
                                       |-> IF p = <<SourceDir, segment_num + 1>>
                                           THEN RunKey ELSE written[p]]
                      /\ segment_num' = segment_num + 1
                      /\ cur' = cur + Interval
                      /\ pc' = IF cur + Interval < end_time THEN "downloading"
                               ELSE "completing"
                      /\ UNCHANGED faults
                 ELSE /\ faults < MaxFaults
                      /\ faults' = faults + 1
                      /\ pc' = "failed"
                      /\ UNCHANGED <<disk, current_analyses, analyses, written,
                                     segment_num, cur>>
    /\ UNCHANGED <<extraVars, config, source, start_time, end_time, video_duration,
                   segments_to_process, seg_i, requests, cacheVars, chatVars>>

\* "After all segments are processed, enable chat"
LegacyComplete ==
    /\ pc = "completing"
    /\ analyses' = load_all_analyses(SourceDir)
    /\ pc' = "done"
    /\ UNCHANGED <<extraVars, written, config, source, start_time, end_time,
                   video_duration, cur, segments_to_process, seg_i, segment_num,
                   requests, events, faults, disk, current_analyses, cacheVars, chatVars>>

InitLegacy ==
    /\ InitSession
    /\ InitExtra
    /\ InitIdle
    /\ InitCache
    /\ disk = EmptyDict
    /\ source \in {src \in Sources : src.mode = "URL"}
    /\ config \in {c \in Configs : ~c.enable_range => (c.start_time = 0 /\ c.end_time = 0)}

NextLegacy ==
    \/ LegacyStartUrlRun
    \/ LegacyDownloadAndProcess
    \/ LegacyComplete

SpecLegacy == InitLegacy /\ [][NextLegacy]_vars

\* ------------------------------------------------------------------------
\* C24: in the URL branch of video_analysis.py with a validated window, every
\* enumerated segment (s, e) has s < e <= end, the segments are contiguous
\* from start, and at the end of the loop they cover [start, end), also when
\* start > 0.
C24_LegacyWindow ==
    (config.enable_range /\ pc \in {"downloading", "completing", "done", "failed"})
    => /\ \A k \in 1..Len(events) :
             /\ events[k].start < events[k].end
             /\ events[k].end <= end_time
             /\ events[k].start = IF k = 1 THEN start_time ELSE events[k - 1].end
       /\ pc \in {"completing", "done"}
             => (events # <<>> /\ events[Len(events)].end = end_time)

\* ------------------------------------------------------------------------
\* Authentication (utils/auth.py, Video_Analysis.py), VITE_AUTH_ENABLED = true
\* ------------------------------------------------------------------------
\* what a client can put into the "t" query parameter: base64 JSON with the
\* fields token and expiry, the token being one the auth service issued or
\* not, or text that does not decode
UndecodableToken == [undecodable |-> TRUE]

ClientTokens ==
    { [token |-> id, expiry |-> e] : id \in {"issued", "forged"}, e \in 0..(MaxClock + 1) }
        \cup {UndecodableToken}

\* response.ok of GET /auth/check/: the service accepts tokens it issued,
\* unless they are revoked or the call fails
ServiceAnswers(token) == IF token.token = "issued" THEN BOOLEAN ELSE {FALSE}

\* check_auth: whether the token is taken as valid, and whether the API was
\* called for it
check_auth(token, now, ok) ==
    IF token = NoToken THEN [valid |-> FALSE, called |-> FALSE]
    ELSE IF token = UndecodableToken THEN [valid |-> FALSE, called |-> FALSE]
    ELSE IF now > token.expiry THEN [valid |-> ok, called |-> TRUE]
    ELSE [valid |-> TRUE, called |-> FALSE]

\* require_auth at the start of a script run: token_from_url is the "t" query
\* parameter (NoToken if there is none), now is time.time()
RequireAuth(token_from_url, now, ok) ==
    /\ now >= clock
    /\ clock' = now
    /\ IF authenticated
       THEN UNCHANGED authVars
       ELSE LET token == IF token_from_url # NoToken THEN token_from_url ELSE auth_token
                result == check_auth(token, now, ok)
            IN  /\ token \notin {NoToken, UndecodableToken} => ok \in ServiceAnswers(token)
                /\ token \in {NoToken, UndecodableToken} => ok = FALSE
                /\ api_checks' = IF result.called /\ ok THEN api_checks \cup {token}
                                 ELSE api_checks
                /\ IF result.valid
                   THEN /\ auth_token' = token
                        /\ auth_expiry' = token.expiry
                        /\ authenticated' = TRUE
                   ELSE /\ auth_token' = IF token_from_url # NoToken THEN auth_token
                                         ELSE NoToken
                        /\ UNCHANGED <<auth_expiry, authenticated>>
    /\ UNCHANGED <<runVars, storeVars, cache, lookup, registered, chatVars, written,
                   pageVars, frameVars, writers>>

\* "?logout=true": logout() clears the authentication state
Logout ==
    /\ auth_token' = NoToken
    /\ auth_expiry' = 0
    /\ authenticated' = FALSE
    /\ UNCHANGED <<runVars, storeVars, cacheVars, chatVars, written, pageVars, frameVars,
                   writers, api_checks>>

NextAuth ==
    \/ \E token_from_url \in ClientTokens \cup {NoToken}, now \in 0..MaxClock,
          ok \in BOOLEAN : RequireAuth(token_from_url, now, ok)
    \/ Logout

SpecAuth == InitCacheSpec /\ [][NextAuth]_vars

\* ------------------------------------------------------------------------
\* C30: with authentication enabled the session is authenticated only with a
\* token for which a call of /auth/check/ has succeeded, whatever expiry the
\* token carries.
C30_ValidatedByService ==
    authenticated => auth_token \in api_checks

\* ------------------------------------------------------------------------
\* Sessions on the Upload and Analyze pages with uploaded files
\* (Video_Analysis.py, components/upload.py, components/analyze.py)
\* ------------------------------------------------------------------------
\* two uploads with the same file name and different content
SessionFiles ==
    { [name |-> [stem |-> "a", ext |-> ".mp4"], content |-> "X", size |-> 2,
       total_frames |-> 2, fps |-> 1],
      [name |-> [stem |-> "a", ext |-> ".mp4"], content |-> "Y", size |-> 1,
       total_frames |-> 1, fps |-> 1] }

\* settings of the sidebar: the whole file, or its first second
SessionConfigs ==
    { [audio_transcription |-> FALSE, segment_interval |-> 1, enable_range |-> r,
       start_time |-> 0, end_time |-> e] : r \in BOOLEAN, e \in {0, 1} }

\* what the cache lookup of the Upload page leaves in the history
Lookup ==
    [query |-> source.file, key |-> RunKey, result |-> CheckSource]

\* analyses in the structure of current_analyses
AsCurrentAnalyses(records) ==
    [i \in 1..Len(records) |->
        [segment |-> records[i].segment, start_time |-> records[i].start_time,
         end_time |-> records[i].end_time, analysis |-> records[i].analysis,
         transcription |-> <<"None">>]]

\* show_analyze_page with current_analyses = records: the records are shown,
\* and process_uploaded_file is called only if there are none
ShowAnalyzePage(records) ==
    IF Len(records) = 0
    THEN /\ pc' = "idle"
         /\ start_time' = 0
         /\ end_time' = 0
         /\ video_duration' = 0
         /\ cur' = 0
         /\ segments_to_process' = <<>>
         /\ seg_i' = 0
         /\ segment_num' = 0
         /\ requests' = <<>>
         /\ events' = <<>>
    ELSE /\ pc' = "shown"
         /\ UNCHANGED <<start_time, end_time, video_duration, cur, segments_to_process,
                        seg_i, segment_num, requests, events>>

\* no pipeline run is in progress
Resting == pc \in {"none", "done", "shown", "stopped"}

\* a render of the Upload page with a file in the uploader and the settings
\* of the sidebar: process_uploaded_video looks the file up in the cache
SelectSource(file, settings) ==
    /\ current_phase = "Upload"
    /\ Resting
    /\ source' = [mode |-> "File", file |-> file]
    /\ config' = settings
    /\ lookup' = [query |-> file, key |-> compute_file_hash(file),
                  result |-> check_video_analyzed(file)]
    /\ previous_analysis_path' = check_video_analyzed(file)
    /\ reanalyze' = FALSE
    /\ UNCHANGED <<pc, start_time, end_time, video_duration, cur, segments_to_process,
                   seg_i, segment_num, requests, events, faults, storeVars, cache, clock,
                   registered, chatVars, written, current_phase, use_previous_analysis,
                   frameVars, writers, authVars>>

\* the "Load Previous Analysis" button
ClickLoadPrevious ==
    /\ current_phase = "Upload"
    /\ Resting
    /\ source.file # NoFile
    /\ CheckSource \notin {None, Raised}
    /\ lookup' = Lookup
    /\ previous_analysis_path' = CheckSource
    /\ analyses' = load_previous_analysis(CheckSource)
    /\ current_analyses' = AsCurrentAnalyses(load_previous_analysis(CheckSource))
    /\ use_previous_analysis' = TRUE
    /\ current_phase' = "Analyze"
    /\ reanalyze' = FALSE
    /\ ShowAnalyzePage(load_previous_analysis(CheckSource))
    /\ UNCHANGED <<config, source, faults, disk, cache, clock, registered, chatVars,
                   written, frameVars, writers, authVars>>

\* the "Re-Analyze Video" button
ClickReAnalyze ==
    /\ current_phase = "Upload"
    /\ Resting
    /\ source.file # NoFile
    /\ CheckSource \notin {None, Raised}
    /\ lookup' = Lookup
    /\ previous_analysis_path' = CheckSource
    /\ use_previous_analysis' = FALSE
    /\ reanalyze' = TRUE
    /\ UNCHANGED <<runVars, storeVars, cache, clock, registered, chatVars, written,
                   current_phase, frameVars, writers, authVars>>

\* the "Continue to Analysis" button, and the Analyze page it leads to
ContinueToAnalysis ==
    /\ current_phase = "Upload"
    /\ Resting
    /\ source.file # NoFile
    /\ ~use_previous_analysis
    /\ current_phase' = "Analyze"
    /\ ShowAnalyzePage(current_analyses)
    /\ UNCHANGED <<config, source, faults, storeVars, cacheVars, chatVars, written,
                   use_previous_analysis, previous_analysis_path, reanalyze,
                   frameVars, writers, authVars>>

\* the "Edit Configuration" button of the Analyze page
EditConfiguration ==
    /\ current_phase = "Analyze"
    /\ Resting
    /\ current_phase' = "Upload"
    /\ reanalyze' = FALSE
    /\ UNCHANGED <<runVars, storeVars, cacheVars, chatVars, written,
                   use_previous_analysis, previous_analysis_path, frameVars, writers,
                   authVars>>

\* a new browser session: st.session_state starts empty, the files stay
NewSession ==
    /\ Resting
    /\ pc # "none"
    /\ source' = NoSource
    /\ config' = DefaultConfig
    /\ pc' = "none"
    /\ start_time' = 0
    /\ end_time' = 0
    /\ video_duration' = 0
    /\ cur' = 0
    /\ segments_to_process' = <<>>
    /\ seg_i' = 0
    /\ segment_num' = 0
    /\ requests' = <<>>
    /\ events' = <<>>
    /\ analyses' = <<>>
    /\ current_analyses' = <<>>
    /\ current_phase' = "Upload"
    /\ use_previous_analysis' = FALSE
    /\ previous_analysis_path' = None
    /\ reanalyze' = FALSE
    /\ UNCHANGED <<faults, disk, cacheVars, chatVars, written, frameVars, writers,
                   authVars>>

InitSessionSpec ==
    /\ InitSession
    /\ InitExtra
    /\ InitCache
    /\ disk = EmptyDict
    /\ source = NoSource
    /\ config = DefaultConfig
    /\ pc = "none"
    /\ start_time = 0
    /\ end_time = 0
    /\ video_duration = 0
    /\ cur = 0
    /\ segments_to_process = <<>>
    /\ seg_i = 0
    /\ segment_num = 0
    /\ requests = <<>>
    /\ events = <<>>
    /\ faults = MaxFaults

NextSession ==
    \/ \E file \in SessionFiles, settings \in SessionConfigs : SelectSource(file, settings)
    \/ ClickLoadPrevious
    \/ ClickReAnalyze
    \/ ContinueToAnalysis
    \/ EditConfiguration
    \/ NewSession
    \/ StartFileRun
    \/ ExtractSegment
    \/ ProcessSegment
    \/ Complete

SpecSession == InitSessionSpec /\ [][NextSession]_vars

\* ------------------------------------------------------------------------
\* C22: after the lookup has found a previous analysis and the user has
\* chosen Re-Analyze and continued to the Analyze page, a pipeline run is
\* executed for the selected source, whatever current_analyses holds, and its
\* completion rewrites the cache entry of the fingerprint.
C22_ReAnalyzeRuns ==
    (current_phase = "Analyze" /\ reanalyze)
    => /\ pc # "shown"
       /\ pc = "done" => /\ RunKey \in DOMAIN cache.entries
                         /\ cache.entries[RunKey].timestamp = clock - 1

\* ------------------------------------------------------------------------
\* C25: the directory a cache lookup returns for a fingerprint holds only
\* records written by runs on the source with that fingerprint.
C25_HitIsOwnAnalysis ==
    lookup.result \notin {None, Raised}
    => \A n \in DOMAIN FilesOf(lookup.result) :
          /\ <<lookup.result, n>> \in DOMAIN written
          /\ written[<<lookup.result, n>>] = lookup.key

\* the record files the current run has written
RunRecords ==
    [n \in {requests[k].segment_num + 1 : k \in 1..Len(requests)} |->
        LET k == CHOOSE j \in 1..Len(requests) : requests[j].segment_num + 1 = n
        IN  [segment |-> n, start_time |-> requests[k].start_time,
             end_time |-> requests[k].end_time, analysis |-> requests[k].analysis]]

\* ------------------------------------------------------------------------
\* C26: when a run has completed, the analyses of the session are exactly the
\* records this run has persisted, also when the directory held more segment
\* files from an earlier run.
C26_NoStaleRecords ==
    pc = "done" => analyses = LoadFiles(RunRecords)

====
